---- MODULE Spec2Model ----
(***************************************************************************)
(* Model of lambda/src/new_account_support_case.py: the Lambda handler     *)
(* that resolves the account id of a new organization member and opens a   *)
(* support case for it.                                                    *)
(*                                                                         *)
(* Strings are sequences of lexemes.  A lexeme is one character ("$",      *)
(* "{", "}", " ", ",") or an unbroken run of characters that the code      *)
(* never looks inside ("account_id", "foo.com").  Two adjacent identifier  *)
(* lexemes form one longer identifier, as adjacent letters do in Python.   *)
(***************************************************************************)
EXTENDS Integers, Sequences, FiniteSets, TLC

VARIABLES
    environ,                  \* os.environ: CC_LIST, SUBJECT, COMMUNICATION_BODY
    event,                    \* the inbound event
    pc,                       \* position of lambda_handler
    create_account_status_id, \* local of get_new_account_id
    account_id,               \* local of lambda_handler ("" until resolved)
    subject,                  \* local of main: subject after substitution
    communication_body,       \* local of main: body after substitution
    case_id,                  \* local of main
    display_id,               \* local of main
    calls,                    \* external calls made so far, in order, with their results
    cases,                    \* cases stored by the support service
    exc,                      \* exception that left lambda_handler (NoExc if none)
    retval,                   \* value returned by lambda_handler ("" while running)
    t_template,               \* template_to_string called on its own: argument
    t_account_id,             \* template_to_string called on its own: argument
    t_result                  \* template_to_string called on its own: outcome

vars == <<environ, event, pc, create_account_status_id, account_id, subject,
          communication_body, case_id, display_id, calls, cases, exc, retval,
          t_template, t_account_id, t_result>>

handlerVars == <<environ, event, pc, create_account_status_id, account_id, subject,
                 communication_body, case_id, display_id, calls, cases, exc, retval>>

templateVars == <<t_template, t_account_id, t_result>>

-----------------------------------------------------------------------------
(* Bounds *)

\* Largest number of describe_create_account_status calls in one invocation.
MaxPolls == 3

\* Longest template (in lexemes) given to template_to_string on its own.
MaxTemplateLen == 4

-----------------------------------------------------------------------------
(* Python values *)

\* os.environ.get(name) is None or a string.
None == [isNone |-> TRUE, s |-> <<>>]

Str(s) == [isNone |-> FALSE, s |-> s]

\* Python's "not v" for v None or a string.
Falsy(v) == v.isNone \/ v.s = <<>>

\* An exception: its class, str(exception) and the class of its __cause__.
Exception(type, msg, cause) == [type |-> type, msg |-> msg, cause |-> cause]

NoExc == Exception("None", <<>>, "None")

\* The outcome of a call that either returns a string or raises.
Returned(val) == [exc |-> NoExc, val |-> val]

Raised(e) == [exc |-> e, val |-> <<>>]

\* repr() of a string key, as str(KeyError(key)) shows it.
Repr(s) == <<"'">> \o s \o <<"'">>

Range(s) == {s[i] : i \in 1..Len(s)}

-----------------------------------------------------------------------------
(* string.Template, as template_to_string uses it *)

\* Lexemes made of identifier characters ([_a-z][_a-z0-9]*).
IdLexemes == {"account_id", "unknown_var"}

\* The lexemes templates are written in.
TemplateLexemes == {"$", "{", "}", " "} \cup IdLexemes

IsId(t, i) == i <= Len(t) /\ t[i] \in IdLexemes

\* Last position of the identifier that starts at i (i-1 if none starts there):
\* the regular expression takes the longest identifier.
RECURSIVE IdEnd(_, _)
IdEnd(t, i) == IF IsId(t, i) THEN IdEnd(t, i + 1) ELSE i - 1

\* What Template.pattern matches at a delimiter "$" at position i, in the
\* order of its alternatives: escaped, named, braced, invalid.
MatchAt(t, i) ==
    IF i + 1 <= Len(t) /\ t[i + 1] = "$"
    THEN [kind |-> "escaped", name |-> <<>>, next |-> i + 2]
    ELSE IF IsId(t, i + 1)
    THEN [kind |-> "named", name |-> SubSeq(t, i + 1, IdEnd(t, i + 1)),
          next |-> IdEnd(t, i + 1) + 1]
    ELSE IF /\ i + 1 <= Len(t) /\ t[i + 1] = "{"
            /\ IsId(t, i + 2)
            /\ IdEnd(t, i + 2) + 1 <= Len(t) /\ t[IdEnd(t, i + 2) + 1] = "}"
    THEN [kind |-> "braced", name |-> SubSeq(t, i + 2, IdEnd(t, i + 2)),
          next |-> IdEnd(t, i + 2) + 2]
    ELSE [kind |-> "invalid", name |-> <<>>, next |-> i + 1]

\* What an escaped delimiter ("$$") is replaced by.
EscapedAsIs == <<"$", "$">>

Escaped == <<"$">>

\* Template(template).substitute(account_id=account_id) from position i on,
\* out being the text produced so far.  The only key of the mapping is
\* account_id: any other name raises KeyError(name), an invalid delimiter
\* raises ValueError.
RECURSIVE substitute_from(_, _, _, _)
substitute_from(template, acct, i, out) ==
    IF i > Len(template) THEN Returned(out)
    ELSE IF template[i] # "$"
    THEN substitute_from(template, acct, i + 1, Append(out, template[i]))
    ELSE LET m == MatchAt(template, i) IN
         CASE m.kind = "escaped" ->
                substitute_from(template, acct, m.next, out \o Escaped)
           [] m.kind \in {"named", "braced"} ->
                IF m.name = <<"account_id">>
                THEN substitute_from(template, acct, m.next, Append(out, acct))
                ELSE Raised(Exception("KeyError", Repr(m.name), "None"))
           [] OTHER ->
                Raised(Exception("ValueError",
                                 <<"Invalid placeholder in string">>, "None"))

substitute(template, acct) == substitute_from(template, acct, 1, <<>>)

\* A template_to_string that leaves an unknown placeholder in place.
template_to_string_lenient(template, acct) ==
    LET r == substitute(template, acct) IN
    IF r.exc.type = "KeyError" THEN Returned(template) ELSE r

\* template_to_string: substitute, a KeyError becoming SupportCaseError.
template_to_string(template, acct) ==
    LET r == substitute(template, acct) IN
    IF r.exc.type = "KeyError"
    THEN Raised(Exception("SupportCaseError",
                          <<"Unexpected variable ">> \o r.exc.msg
                              \o <<" found in '">> \o template \o <<"'">>,
                          "KeyError"))
    ELSE r

-----------------------------------------------------------------------------
(* Inputs: configuration and events *)

AccountIds == {"123", "000000000000"}

\* Values of SUBJECT and COMMUNICATION_BODY: unset, empty, plain text,
\* $account_id, ${account_id}, an unknown placeholder alone and next to
\* account_id, an invalid delimiter before an unknown placeholder, "$$".
TemplateValues ==
    { None,
      Str(<<>>),
      Str(<<" ">>),
      Str(<<" ", "$", "account_id">>),
      Str(<<"$", "{", "account_id", "}">>),
      Str(<<"$", "unknown_var">>),
      Str(<<"$", "account_id", " ", "$", "unknown_var">>),
      Str(<<"$", " ", "$", "unknown_var">>),
      Str(<<"$", "$">>) }

\* Values of CC_LIST: unset, empty, one recipient, two recipients.
CcListValues ==
    { None,
      Str(<<>>),
      Str(<<"foo.com">>),
      Str(<<"foo.com", ",", "foobar.com">>) }

Environs ==
    [CC_LIST : CcListValues, SUBJECT : TemplateValues,
     COMMUNICATION_BODY : TemplateValues]

\* A field the event does not carry.
Absent == "<absent>"

\* detail.eventName, detail.responseElements.createAccountStatus.id,
\* detail.requestParameters.target.id and
\* detail.serviceEventDetails.createAccountStatus.accountId.
Event(name, statusId, targetId, legacyId) ==
    [eventName |-> name, createAccountStatusId |-> statusId,
     targetId |-> targetId, legacyAccountId |-> legacyId]

Events ==
    { Event("CreateAccount", "car-1", Absent, Absent),
      Event("CreateGovCloudAccount", "car-1", Absent, Absent),
      Event("CreateAccount", Absent, Absent, Absent),
      Event("InviteAccountToOrganization", Absent, "123", Absent),
      Event("CreateAccountResult", Absent, Absent, "000000000000"),
      Event("RemoveAccountFromOrganization", Absent, Absent, Absent) }

AsyncCreationNames == {"CreateAccount", "CreateGovCloudAccount"}

-----------------------------------------------------------------------------
(* check_for_null_envvars *)

CcListMessage ==
    <<"Environment variable '", "CC_LIST",
      "' must provide at least one email address to CC on this case.">>

SubjectMessage ==
    <<"Environment variable '", "SUBJECT",
      "' must provide the 'Subject' text for the communication sent to support.">>

CommunicationBodyMessage ==
    <<"Environment variable '", "COMMUNICATION_BODY",
      "' must provide the body of the communication sent to support.">>

InvalidArguments(msg) == Exception("SupportCaseInvalidArgumentsError", msg, "None")

\* A check that forgets SUBJECT.
check_for_null_envvars_no_subject(cc_list, body, subj) ==
    IF Falsy(cc_list) THEN InvalidArguments(CcListMessage)
    ELSE IF Falsy(body) THEN InvalidArguments(CommunicationBodyMessage)
    ELSE NoExc

\* A check in the order of the parameters: the body before the subject.
check_for_null_envvars_body_first(cc_list, body, subj) ==
    IF Falsy(cc_list) THEN InvalidArguments(CcListMessage)
    ELSE IF Falsy(body) THEN InvalidArguments(CommunicationBodyMessage)
    ELSE IF Falsy(subj) THEN InvalidArguments(SubjectMessage)
    ELSE NoExc

\* The exception check_for_null_envvars raises, NoExc if it returns.
check_for_null_envvars(cc_list, body, subj) ==
    IF Falsy(cc_list) THEN InvalidArguments(CcListMessage)
    ELSE IF Falsy(subj) THEN InvalidArguments(SubjectMessage)
    ELSE IF Falsy(body) THEN InvalidArguments(CommunicationBodyMessage)
    ELSE NoExc

-----------------------------------------------------------------------------
(* Account resolution *)

\* A strategy table that polls for invited accounts too.
get_account_id_strategy_all_new ==
    [n \in {"CreateAccount", "CreateGovCloudAccount", "InviteAccountToOrganization"} |->
        "get_new_account_id"]

\* The keys of get_account_id_strategy and the function each maps to.
get_account_id_strategy ==
    [n \in {"CreateAccount", "CreateGovCloudAccount", "InviteAccountToOrganization"} |->
        IF n = "InviteAccountToOrganization"
        THEN "get_invite_account_id" ELSE "get_new_account_id"]

\* str.upper() on the states the organization service reports.
Upper(state) ==
    CASE state = "Succeeded" -> "SUCCEEDED"
      [] state = "Failed" -> "FAILED"
      [] OTHER -> state

\* The exceptions a boto3 client call raises: botocore's ClientError when the
\* service answers with an error, and an exception that is not a ClientError
\* when no answer arrives (EndpointConnectionError, a BotoCoreError).
CallErrors == {"ClientError", "EndpointConnectionError"}

\* Responses of describe_create_account_status: CreateAccountStatus.State,
\* with AccountId when it succeeded and FailureReason when it failed, or an
\* exception raised by the call.
StatusResponse(state, acct, reason) ==
    [error |-> FALSE, errorType |-> Absent, State |-> state, AccountId |-> acct,
     FailureReason |-> reason]

StatusError(type) ==
    [error |-> TRUE, errorType |-> type, State |-> Absent, AccountId |-> Absent,
     FailureReason |-> Absent]

StatusResponses ==
    {StatusResponse("IN_PROGRESS", Absent, Absent)}
    \cup {StatusResponse(s, a, Absent) : s \in {"SUCCEEDED", "Succeeded"}, a \in AccountIds}
    \cup {StatusResponse(s, Absent, "EMAIL_ALREADY_EXISTS") : s \in {"FAILED", "Failed"}}
    \cup {StatusError(type) : type \in CallErrors}

IsTerminal(resp) == ~resp.error /\ Upper(resp.State) \in {"SUCCEEDED", "FAILED"}

IsInProgress(resp) == ~resp.error /\ Upper(resp.State) \notin {"SUCCEEDED", "FAILED"}

\* A loop that gives up polling on any state that is not in progress.
status_branch_any_terminal(state) ==
    IF state = "IN_PROGRESS" THEN "sleep" ELSE "return"

\* A loop that waits for a state the service never reports.
status_branch_wrong_literal(state) ==
    IF state = "SUCCESS" THEN "return"
    ELSE IF state = "FAILED" THEN "raise"
    ELSE "sleep"

\* A loop that gives up unless the creation has succeeded.
status_branch_fail_unless_succeeded(state) ==
    IF state = "SUCCEEDED" THEN "return" ELSE "raise"

\* A loop that keeps polling a failed creation.
status_branch_ignore_failed(state) ==
    IF state = "SUCCEEDED" THEN "return" ELSE "sleep"

\* The branch the polling loop of get_new_account_id takes on a state
\* (already upper-cased).
status_branch(state) ==
    IF state = "SUCCEEDED" THEN "return"
    ELSE IF state = "FAILED" THEN "raise"
    ELSE "sleep"

ClientErrorMessage(op) == <<"An error occurred when calling the ", op, " operation">>

\* str() of the exception of class type raised by the call of operation op.
CallErrorMessage(type, op) ==
    IF type = "ClientError" THEN ClientErrorMessage(op)
    ELSE <<"Could not connect to the endpoint URL">>

CallError(type, op) == Exception(type, CallErrorMessage(type, op), "None")

\* get_account_id's except clause: ClientError and AccountCreationFailedError
\* are re-raised as AccountCreationFailedError(err); anything else passes.
get_account_id_except(e) ==
    IF e.type \in {"ClientError", "AccountCreationFailedError"}
    THEN Exception("AccountCreationFailedError", e.msg, e.type)
    ELSE e

-----------------------------------------------------------------------------
(* The support service and the requests main sends to it *)

\* A request of severity high.
create_case_request_high(subj, body, cc_list) ==
    [subject |-> subj,
     severityCode |-> "high",
     categoryCode |-> "other-account-issues",
     serviceCode |-> "customer-account",
     communicationBody |-> body,
     ccEmailAddresses |-> <<cc_list>>,
     language |-> "en",
     issueType |-> "customer-service"]

\* The keyword arguments of support_client.create_case in main.
create_case_request(subj, body, cc_list) ==
    [subject |-> subj,
     severityCode |-> "low",
     categoryCode |-> "other-account-issues",
     serviceCode |-> "customer-account",
     communicationBody |-> body,
     ccEmailAddresses |-> <<cc_list>>,
     language |-> "en",
     issueType |-> "customer-service"]

\* Identifiers the support service gives the n-th case it stores.
NewCaseId(n) == IF n = 1 THEN "case-1" ELSE "case-n"

NewDisplayId(n) == IF n = 1 THEN "display-1" ELSE "display-n"

\* What create_case answers: a case id, an empty case id, a response
\* without caseId, or an exception raised by the call.
CreateCaseOutcomes == {"ok", "emptyCaseId", "noCaseId"} \cup CallErrors

\* What describe_cases answers: the stored cases asked for, a response
\* without cases, an empty list of cases, a first case without displayId, or
\* an exception raised by the call.
DescribeCasesOutcomes == {"ok", "noCases", "emptyCases", "noDisplayId"} \cup CallErrors

\* The except clauses around create_case and describe_cases in main: a
\* ClientError is re-raised as SupportCaseError(err); anything else passes.
main_except(e) ==
    IF e.type = "ClientError"
    THEN Exception("SupportCaseError", e.msg, e.type)
    ELSE e

\* A main that takes any case id, an empty one too.
not_case_id_never(cid) == FALSE

\* "not case_id" on the caseId of the create_case response.
not_case_id(cid) == cid = ""

\* A lookup that names no case.
describe_cases_request_no_id(cid) == <<>>

\* The caseIdList of the describe_cases request.
describe_cases_request(cid) == <<cid>>

\* What main returns when it succeeds.
main_retval == "0"

\* A handler that hands on what main returned.
lambda_handler_retval_of_main(main_result) == main_result

\* What lambda_handler returns after main returned: it ends without a
\* return statement.
lambda_handler_retval(main_result) == "None"

\* One call in the record of external calls.
Call(op, request, response) == [op |-> op, request |-> request, response |-> response]

CallsOf(op) == {k \in 1..Len(calls) : calls[k].op = op}

-----------------------------------------------------------------------------
(* lambda_handler, step by step *)

\* A handler that logs the exception and returns.
Raise_swallowed(e) ==
    /\ pc' = "returned"
    /\ exc' = NoExc
    /\ retval' = "None"

\* An exception leaves lambda_handler: every except clause of the handler
\* ends in a bare raise.
Raise(e) ==
    /\ pc' = "raised"
    /\ exc' = e
    /\ retval' = ""

\* A lambda_handler that substitutes the templates right after the check of
\* the configuration, before the account id is resolved.
CheckEnvvars_then_templates ==
    /\ pc = "lambda_handler"
    /\ LET e == check_for_null_envvars(environ.CC_LIST, environ.COMMUNICATION_BODY,
                                       environ.SUBJECT)
           s == template_to_string(environ.SUBJECT.s, account_id)
           b == template_to_string(environ.COMMUNICATION_BODY.s, account_id)
       IN IF e # NoExc
          THEN Raise(e) /\ UNCHANGED <<subject, communication_body>>
          ELSE IF s.exc # NoExc
          THEN Raise(s.exc) /\ UNCHANGED <<subject, communication_body>>
          ELSE IF b.exc # NoExc
          THEN Raise(b.exc) /\ subject' = s.val /\ UNCHANGED communication_body
          ELSE /\ subject' = s.val
               /\ communication_body' = b.val
               /\ pc' = "get_account_id"
               /\ UNCHANGED <<exc, retval>>
    /\ UNCHANGED <<environ, event, create_account_status_id, account_id, case_id,
                   display_id, calls, cases>>
    /\ UNCHANGED templateVars

\* lambda_handler up to and including check_for_null_envvars: nothing but
\* the environment is read.
CheckEnvvars ==
    /\ pc = "lambda_handler"
    /\ LET e == check_for_null_envvars(environ.CC_LIST, environ.COMMUNICATION_BODY,
                                       environ.SUBJECT)
       IN IF e # NoExc
          THEN Raise(e)
          ELSE pc' = "get_account_id" /\ UNCHANGED <<exc, retval>>
    /\ UNCHANGED <<environ, event, create_account_status_id, account_id, subject,
                   communication_body, case_id, display_id, calls, cases>>
    /\ UNCHANGED templateVars

\* get_account_id up to the first external call: the strategy lookup, then
\* get_invite_account_id or the head of get_new_account_id.
GetAccountId ==
    /\ pc = "get_account_id"
    /\ IF event.eventName \notin DOMAIN get_account_id_strategy
       THEN /\ Raise(get_account_id_except(
                        Exception("KeyError", Repr(<<event.eventName>>), "None")))
            /\ UNCHANGED <<account_id, create_account_status_id>>
       ELSE IF get_account_id_strategy[event.eventName] = "get_invite_account_id"
       THEN /\ account_id' = event.targetId
            /\ pc' = "main"
            /\ UNCHANGED <<create_account_status_id, exc, retval>>
       ELSE IF event.createAccountStatusId = Absent
       THEN /\ Raise(get_account_id_except(Exception("KeyError", Repr(<<"id">>), "None")))
            /\ UNCHANGED <<account_id, create_account_status_id>>
       ELSE /\ create_account_status_id' = event.createAccountStatusId
            /\ pc' = "describe_create_account_status"
            /\ UNCHANGED <<account_id, exc, retval>>
    /\ UNCHANGED <<environ, event, subject, communication_body, case_id, display_id,
                   calls, cases>>
    /\ UNCHANGED templateVars

\* One turn of the loop of get_new_account_id: the status query and the
\* branch on its state.  The organization service answers as it likes; the
\* record of calls holds at most MaxPolls queries, so the last of them is
\* not one the loop goes round on.
DescribeCreateAccountStatus ==
    /\ pc = "describe_create_account_status"
    /\ \E resp \in StatusResponses :
        /\ (~resp.error /\ status_branch(Upper(resp.State)) = "sleep")
              => Cardinality(CallsOf("describe_create_account_status")) + 1 < MaxPolls
        /\ calls' = Append(calls, Call("describe_create_account_status",
                                       create_account_status_id, resp))
        /\ IF resp.error
           THEN /\ Raise(get_account_id_except(
                            CallError(resp.errorType, "DescribeCreateAccountStatus")))
                /\ UNCHANGED account_id
           ELSE CASE status_branch(Upper(resp.State)) = "return" ->
                        /\ account_id' = resp.AccountId
                        /\ pc' = "main"
                        /\ UNCHANGED <<exc, retval>>
                  [] status_branch(Upper(resp.State)) = "raise" ->
                        /\ Raise(get_account_id_except(
                                    Exception("AccountCreationFailedError", <<>>, "None")))
                        /\ UNCHANGED account_id
                  [] OTHER ->
                        /\ pc' = "sleep"
                        /\ UNCHANGED <<account_id, exc, retval>>
    /\ UNCHANGED <<environ, event, create_account_status_id, subject, communication_body,
                   case_id, display_id, cases>>
    /\ UNCHANGED templateVars

\* time.sleep(5) at the end of a turn of the loop.
SleepInterval == 5

Sleep ==
    /\ pc = "sleep"
    /\ calls' = Append(calls, Call("sleep", SleepInterval, Absent))
    /\ pc' = "describe_create_account_status"
    /\ UNCHANGED <<environ, event, create_account_status_id, account_id, subject,
                   communication_body, case_id, display_id, cases, exc, retval>>
    /\ UNCHANGED templateVars

\* main up to the first external call: both templates are substituted, the
\* subject first.
Templates ==
    /\ pc = "main"
    /\ LET s == template_to_string(environ.SUBJECT.s, account_id)
           b == template_to_string(environ.COMMUNICATION_BODY.s, account_id)
       IN IF s.exc # NoExc
          THEN Raise(s.exc) /\ UNCHANGED <<subject, communication_body>>
          ELSE IF b.exc # NoExc
          THEN Raise(b.exc) /\ subject' = s.val /\ UNCHANGED communication_body
          ELSE /\ subject' = s.val
               /\ communication_body' = b.val
               /\ pc' = "create_case"
               /\ UNCHANGED <<exc, retval>>
    /\ UNCHANGED <<environ, event, create_account_status_id, account_id, case_id,
                   display_id, calls, cases>>
    /\ UNCHANGED templateVars

\* support_client.create_case and the extraction of the case id.  The
\* service stores the case unless it answers with an error.
CreateCase ==
    /\ pc = "create_case"
    /\ \E outcome \in CreateCaseOutcomes :
        LET request == create_case_request(subject, communication_body, environ.CC_LIST.s)
            n == Len(cases) + 1
            response == CASE outcome = "ok" -> NewCaseId(n)
                          [] outcome = "emptyCaseId" -> ""
                          [] OTHER -> Absent
        IN /\ calls' = Append(calls, Call("create_case", request,
                                          [outcome |-> outcome, caseId |-> response]))
           /\ cases' = IF outcome \in CallErrors THEN cases
                       ELSE Append(cases, [caseId |-> NewCaseId(n),
                                           displayId |-> NewDisplayId(n),
                                           request |-> request])
           /\ CASE outcome \in CallErrors ->
                      /\ Raise(main_except(CallError(outcome, "CreateCase")))
                      /\ UNCHANGED case_id
                [] outcome = "noCaseId" ->
                      /\ Raise(Exception("KeyError", Repr(<<"caseId">>), "None"))
                      /\ UNCHANGED case_id
                [] not_case_id(response) ->
                      /\ Raise(Exception("SupportCaseError",
                                         <<"Missing case_id in create_case() response">>,
                                         "None"))
                      /\ case_id' = response
                [] OTHER ->
                      /\ case_id' = response
                      /\ pc' = "describe_cases"
                      /\ UNCHANGED <<exc, retval>>
    /\ UNCHANGED <<environ, event, create_account_status_id, account_id, subject,
                   communication_body, display_id>>
    /\ UNCHANGED templateVars

\* The stored cases whose id is in caseIdList.
CasesWithId(caseIdList) ==
    SelectSeq(cases, LAMBDA c : c.caseId \in Range(caseIdList))

\* support_client.describe_cases, the extraction of the display id and the
\* return of main and of lambda_handler (which returns nothing).
DescribeCases ==
    /\ pc = "describe_cases"
    /\ \E outcome \in DescribeCasesOutcomes :
        LET request == describe_cases_request(case_id)
            found == CASE outcome = "ok" -> CasesWithId(request)
                       [] outcome = "noDisplayId" -> CasesWithId(request)
                       [] OTHER -> <<>>
        IN /\ calls' = Append(calls, Call("describe_cases", request,
                                          [outcome |-> outcome, cases |-> found]))
           /\ CASE outcome \in CallErrors ->
                      /\ Raise(main_except(CallError(outcome, "DescribeCases")))
                      /\ UNCHANGED display_id
                [] outcome = "noCases" ->
                      /\ Raise(Exception("SupportCaseError", Repr(<<"cases">>), "KeyError"))
                      /\ UNCHANGED display_id
                [] outcome = "emptyCases" \/ (outcome = "ok" /\ found = <<>>) ->
                      /\ Raise(Exception("IndexError", <<"list index out of range">>, "None"))
                      /\ UNCHANGED display_id
                [] outcome = "noDisplayId" ->
                      /\ Raise(Exception("SupportCaseError", Repr(<<"displayId">>), "KeyError"))
                      /\ UNCHANGED display_id
                [] OTHER ->
                      /\ display_id' = found[1].displayId
                      /\ pc' = "returned"
                      /\ retval' = lambda_handler_retval(main_retval)
                      /\ UNCHANGED exc
    /\ UNCHANGED <<environ, event, create_account_status_id, account_id, subject,
                   communication_body, case_id, cases>>
    /\ UNCHANGED templateVars

-----------------------------------------------------------------------------
(* Specification of one invocation of lambda_handler *)

Init ==
    /\ environ \in Environs
    /\ event \in Events
    /\ pc = "lambda_handler"
    /\ create_account_status_id = ""
    /\ account_id = ""
    /\ subject = <<>>
    /\ communication_body = <<>>
    /\ case_id = ""
    /\ display_id = ""
    /\ calls = <<>>
    /\ cases = <<>>
    /\ exc = NoExc
    /\ retval = ""
    /\ t_template = <<>>
    /\ t_account_id = ""
    /\ t_result = Returned(<<>>)

Next ==
    \/ CheckEnvvars
    \/ GetAccountId
    \/ DescribeCreateAccountStatus
    \/ Sleep
    \/ Templates
    \/ CreateCase
    \/ DescribeCases

Spec == Init /\ [][Next]_vars

-----------------------------------------------------------------------------
(* Specification of one invocation whose polling loop is not cut short *)

\* The record of calls is full: the next status query would be its last.
RecordFull == Cardinality(CallsOf("describe_create_account_status")) + 1 >= MaxPolls

\* A turn of the loop of get_new_account_id that goes round again, once
\* the record is full: the query and its answer are not recorded.
DescribeCreateAccountStatusAgain ==
    /\ pc = "describe_create_account_status"
    /\ RecordFull
    /\ \E resp \in StatusResponses :
        /\ ~resp.error
        /\ status_branch(Upper(resp.State)) = "sleep"
    /\ pc' = "sleep"
    /\ UNCHANGED <<environ, event, create_account_status_id, account_id, subject,
                   communication_body, case_id, display_id, calls, cases, exc, retval>>
    /\ UNCHANGED templateVars

\* The sleep after a recorded query.
SleepRecorded ==
    /\ Cardinality(CallsOf("sleep")) < Cardinality(CallsOf("describe_create_account_status"))
    /\ Sleep

\* time.sleep(5) after a query that was not recorded.
SleepAgain ==
    /\ pc = "sleep"
    /\ Cardinality(CallsOf("sleep")) >= Cardinality(CallsOf("describe_create_account_status"))
    /\ pc' = "describe_create_account_status"
    /\ UNCHANGED <<environ, event, create_account_status_id, account_id, subject,
                   communication_body, case_id, display_id, calls, cases, exc, retval>>
    /\ UNCHANGED templateVars

LiveNext ==
    \/ CheckEnvvars
    \/ GetAccountId
    \/ DescribeCreateAccountStatus
    \/ DescribeCreateAccountStatusAgain
    \/ SleepRecorded
    \/ SleepAgain
    \/ Templates
    \/ CreateCase
    \/ DescribeCases

\* The handler is one thread and every call it makes returns: it always
\* takes its next step.  Nothing obliges the organization service to report
\* a terminal state.
LiveSpec == Init /\ [][LiveNext]_vars /\ WF_vars(LiveNext)

-----------------------------------------------------------------------------
(* Specification of template_to_string called on its own *)

RECURSIVE SeqsUpTo(_, _)
SeqsUpTo(S, n) ==
    IF n = 0 THEN {<<>>}
    ELSE LET shorter == SeqsUpTo(S, n - 1)
         IN shorter \cup {Append(s, x) : s \in shorter, x \in S}

TemplateInit ==
    /\ t_template \in SeqsUpTo(TemplateLexemes, MaxTemplateLen)
    /\ t_account_id \in AccountIds
    /\ t_result = Returned(<<>>)
    /\ pc = "template_to_string"
    /\ environ = [CC_LIST |-> None, SUBJECT |-> None, COMMUNICATION_BODY |-> None]
    /\ event = Event("", Absent, Absent, Absent)
    /\ create_account_status_id = ""
    /\ account_id = ""
    /\ subject = <<>>
    /\ communication_body = <<>>
    /\ case_id = ""
    /\ display_id = ""
    /\ calls = <<>>
    /\ cases = <<>>
    /\ exc = NoExc
    /\ retval = ""

TemplateToString ==
    /\ pc = "template_to_string"
    /\ t_result' = template_to_string(t_template, t_account_id)
    /\ pc' = "template_to_string returned"
    /\ UNCHANGED <<t_template, t_account_id>>
    /\ UNCHANGED <<environ, event, create_account_status_id, account_id, subject,
                   communication_body, case_id, display_id, calls, cases, exc, retval>>

TemplateNext == TemplateToString

TemplateSpec == TemplateInit /\ [][TemplateNext]_vars

-----------------------------------------------------------------------------
(* Properties of account resolution *)

StatusCalls == CallsOf("describe_create_account_status")

StatusIs(k, state) ==
    /\ k \in StatusCalls
    /\ ~calls[k].response.error
    /\ Upper(calls[k].response.State) = state

\* C1: a create_case request is sent only after get_account_id returned an
\* account id: for an invite event the embedded target id, without any status
\* query; for an async-creation event after a SUCCEEDED status response, which
\* is the latest status response, carries the account id in use, and is
\* preceded by in-progress responses only (never by a FAILED one).
C1_CaseOnlyAfterResolution ==
    \A k \in CallsOf("create_case") :
        /\ account_id \in AccountIds
        /\ \/ /\ event.eventName = "InviteAccountToOrganization"
              /\ account_id = event.targetId
              /\ StatusCalls = {}
           \/ /\ event.eventName \in AsyncCreationNames
              /\ \E j \in StatusCalls :
                    /\ j < k
                    /\ StatusIs(j, "SUCCEEDED")
                    /\ calls[j].response.AccountId = account_id
                    /\ \A i \in StatusCalls : i <= j
                    /\ \A i \in StatusCalls : i < j => IsInProgress(calls[i].response)

C1_Witness ==
    /\ CallsOf("create_case") # {}
    /\ \E i, j \in StatusCalls : i < j /\ IsInProgress(calls[i].response)
                                       /\ StatusIs(j, "SUCCEEDED")

\* C2: when the status responses are n in-progress ones followed by
\* SUCCEEDED, get_new_account_id has returned the AccountId of the SUCCEEDED
\* response after exactly n+1 status queries (and n sleeps), and no status
\* query follows the SUCCEEDED one.
C2_ReturnsOnSucceeded ==
    \A k \in StatusCalls :
        StatusIs(k, "SUCCEEDED") =>
            /\ event.eventName \in AsyncCreationNames
            /\ \A i \in StatusCalls : i <= k
            /\ \A i \in StatusCalls : i < k => IsInProgress(calls[i].response)
            /\ Cardinality(StatusCalls)
                 = Cardinality({i \in StatusCalls : IsInProgress(calls[i].response)}) + 1
            /\ Cardinality(CallsOf("sleep")) = Cardinality(StatusCalls) - 1
            /\ account_id = calls[k].response.AccountId
            /\ pc \notin {"get_account_id", "describe_create_account_status", "sleep"}
            /\ exc.type # "AccountCreationFailedError"

C2_Witness ==
    /\ Cardinality(StatusCalls) = 3
    /\ \E k \in StatusCalls :
          /\ StatusIs(k, "SUCCEEDED")
          /\ Cardinality({i \in StatusCalls : i < k /\ calls[i].response.State = "IN_PROGRESS"}) = 2
          /\ account_id = calls[k].response.AccountId
    /\ pc = "main"

\* C3: when a status query reports FAILED, after any number of in-progress
\* responses, get_account_id raises AccountCreationFailedError: no account
\* id is returned, the FAILED response is the last external call of the
\* invocation, and no support case is opened.
C3_FailedCreationRaises ==
    \A k \in StatusCalls :
        StatusIs(k, "FAILED") =>
            /\ pc = "raised"
            /\ exc.type = "AccountCreationFailedError"
            /\ account_id = ""
            /\ k = Len(calls)
            /\ CallsOf("create_case") = {}
            /\ cases = <<>>

C3_Witness ==
    /\ pc = "raised"
    /\ \E i, k \in StatusCalls : i < k /\ IsInProgress(calls[i].response)
                                       /\ StatusIs(k, "FAILED")

ConfigurationValid ==
    /\ ~Falsy(environ.CC_LIST)
    /\ ~Falsy(environ.SUBJECT)
    /\ ~Falsy(environ.COMMUNICATION_BODY)

\* C4: for an event whose eventName is not a recognized discriminator,
\* get_account_id raises AccountCreationFailedError and the invocation makes
\* no call to the organization service or to the support service.
C4_UnrecognizedEventRaisesResolutionError ==
    ( /\ event.eventName \notin
            {"CreateAccount", "CreateGovCloudAccount", "InviteAccountToOrganization",
             "CreateAccountResult"}
      /\ ConfigurationValid
      /\ pc \notin {"lambda_handler", "get_account_id"} )
    => /\ pc = "raised"
       /\ exc.type = "AccountCreationFailedError"
       /\ calls = <<>>

MissingVariables ==
    {n \in {"CC_LIST", "SUBJECT", "COMMUNICATION_BODY"} : Falsy(environ[n])}

\* C5: if CC_LIST, SUBJECT or COMMUNICATION_BODY is unset or empty,
\* lambda_handler raises SupportCaseInvalidArgumentsError, the message names
\* a variable that is missing and no other, and no organization-service or
\* support-service call has been made.
C5_MissingConfigurationFailsFirst ==
    (MissingVariables # {} /\ pc # "lambda_handler") =>
        /\ pc = "raised"
        /\ exc.type = "SupportCaseInvalidArgumentsError"
        /\ Range(exc.msg) \cap {"CC_LIST", "SUBJECT", "COMMUNICATION_BODY"} # {}
        /\ Range(exc.msg) \cap {"CC_LIST", "SUBJECT", "COMMUNICATION_BODY"}
              \subseteq MissingVariables
        /\ Cardinality(Range(exc.msg) \cap {"CC_LIST", "SUBJECT", "COMMUNICATION_BODY"}) = 1
        /\ calls = <<>>
        /\ cases = <<>>

C5_Witness ==
    /\ MissingVariables = {"SUBJECT"}
    /\ event.eventName \in AsyncCreationNames
    /\ pc = "raised"
    /\ exc.msg = SubjectMessage

\* C6: for a legacy event (eventName CreateAccountResult, the account id at
\* detail.serviceEventDetails.createAccountStatus.accountId) and a valid
\* configuration, lambda_handler resolves exactly that account id without
\* any status query, and does not fail in account resolution.
C6_LegacyEventResolved ==
    ( /\ event.eventName = "CreateAccountResult"
      /\ event.legacyAccountId # Absent
      /\ ConfigurationValid
      /\ pc \notin {"lambda_handler", "get_account_id"} )
    => /\ account_id = event.legacyAccountId
       /\ StatusCalls = {}
       /\ exc.type \notin {"KeyError", "AccountCreationFailedError"}

-----------------------------------------------------------------------------
(* Properties of template substitution and of the case request *)

\* The names a template refers to with $name or ${name}, read left to right.
RECURSIVE PlaceholderNamesFrom(_, _)
PlaceholderNamesFrom(t, i) ==
    IF i > Len(t) THEN {}
    ELSE IF t[i] # "$" THEN PlaceholderNamesFrom(t, i + 1)
    ELSE LET m == MatchAt(t, i) IN
         (IF m.kind \in {"named", "braced"} THEN {m.name} ELSE {})
            \cup PlaceholderNamesFrom(t, m.next)

UnknownPlaceholders(t) == PlaceholderNamesFrom(t, 1) \ {<<"account_id">>}

\* main has gone through its two template_to_string calls.
TemplatesDone == account_id # "" /\ pc # "main"

\* C7: if the subject or the body template refers to a placeholder name
\* other than account_id (also next to account_id), main raises
\* SupportCaseError whose message names an unknown placeholder of a template
\* and quotes that template, and no create_case request is sent.
C7_UnknownPlaceholderRaisesSupportCaseError ==
    ( /\ TemplatesDone
      /\ UnknownPlaceholders(environ.SUBJECT.s) \cup
            UnknownPlaceholders(environ.COMMUNICATION_BODY.s) # {} )
    => /\ pc = "raised"
       /\ exc.type = "SupportCaseError"
       /\ \E t \in {environ.SUBJECT.s, environ.COMMUNICATION_BODY.s} :
            \E name \in UnknownPlaceholders(t) :
                exc.msg = <<"Unexpected variable ">> \o Repr(name)
                             \o <<" found in '">> \o t \o <<"'">>
       /\ CallsOf("create_case") = {}

StartsWith(t, i, p) ==
    /\ i + Len(p) - 1 <= Len(t)
    /\ SubSeq(t, i, i + Len(p) - 1) = p

IsAccountIdPlaceholderAt(t, i) ==
    \/ StartsWith(t, i, <<"$", "{", "account_id", "}">>)
    \/ StartsWith(t, i, <<"$", "account_id">>) /\ ~IsId(t, i + 2)

\* The template with each $account_id and ${account_id} replaced by the
\* account id and every other lexeme kept.
RECURSIVE ReplaceAccountId(_, _, _)
ReplaceAccountId(t, acct, i) ==
    IF i > Len(t) THEN <<>>
    ELSE IF StartsWith(t, i, <<"$", "{", "account_id", "}">>)
    THEN <<acct>> \o ReplaceAccountId(t, acct, i + 4)
    ELSE IF StartsWith(t, i, <<"$", "account_id">>) /\ ~IsId(t, i + 2)
    THEN <<acct>> \o ReplaceAccountId(t, acct, i + 2)
    ELSE <<t[i]>> \o ReplaceAccountId(t, acct, i + 1)

\* As ReplaceAccountId, "$$" being replaced by "$" as well; ok is FALSE when
\* a "$" starts none of the three forms.
RECURSIVE ReplaceAccountIdAndEscapes(_, _, _)
ReplaceAccountIdAndEscapes(t, acct, i) ==
    IF i > Len(t) THEN [ok |-> TRUE, val |-> <<>>]
    ELSE LET step == CASE t[i] # "$" -> [len |-> 1, out |-> <<t[i]>>]
                       [] StartsWith(t, i, <<"$", "$">>) -> [len |-> 2, out |-> <<"$">>]
                       [] StartsWith(t, i, <<"$", "{", "account_id", "}">>) ->
                              [len |-> 4, out |-> <<acct>>]
                       [] StartsWith(t, i, <<"$", "account_id">>) /\ ~IsId(t, i + 2) ->
                              [len |-> 2, out |-> <<acct>>]
                       [] OTHER -> [len |-> 0, out |-> <<>>]
         IN IF step.len = 0 THEN [ok |-> FALSE, val |-> <<>>]
            ELSE LET rest == ReplaceAccountIdAndEscapes(t, acct, i + step.len)
                 IN [ok |-> rest.ok, val |-> IF rest.ok THEN step.out \o rest.val ELSE <<>>]

TemplateReturned == pc = "template_to_string returned"

\* C8 as stated: template_to_string returns every template without an
\* account_id placeholder unchanged, and every other template with each
\* $account_id or ${account_id} replaced by the account id and every other
\* character left as it was.
C8_LiteralReplacementOfAccountId ==
    TemplateReturned =>
        t_result = Returned(ReplaceAccountId(t_template, t_account_id, 1))

\* C8, amended: template_to_string returns a template without "$"
\* unchanged; a template in which every "$" starts $account_id,
\* ${account_id} or "$$" is returned with each placeholder replaced by the
\* account id, each "$$" replaced by "$" and every other character left as
\* it was; on any other template it raises, SupportCaseError or ValueError,
\* and returns nothing.
C8_Substitution ==
    TemplateReturned =>
        LET expected == ReplaceAccountIdAndEscapes(t_template, t_account_id, 1) IN
        /\ "$" \notin Range(t_template) => t_result = Returned(t_template)
        /\ expected.ok => t_result = Returned(expected.val)
        /\ ~expected.ok => /\ t_result.exc.type \in {"SupportCaseError", "ValueError"}
                           /\ t_result.val = <<>>

C8_Witness ==
    /\ TemplateReturned
    /\ t_template = <<"$", "$", "$", "account_id">>
    /\ t_account_id = "123"
    /\ t_result = Returned(<<"$", "123">>)

RECURSIVE SplitAtCommas(_)
SplitAtCommas(s) ==
    IF \A i \in 1..Len(s) : s[i] # ","
    THEN <<s>>
    ELSE LET k == CHOOSE i \in 1..Len(s) : s[i] = "," /\ \A j \in 1..(i - 1) : s[j] # ","
         IN <<SubSeq(s, 1, k - 1)>> \o SplitAtCommas(SubSeq(s, k + 1, Len(s)))

\* C10: the cc list of the create_case request has one element per
\* configured recipient: CC_LIST split at its commas.
C10_OneCcAddressPerRecipient ==
    \A k \in CallsOf("create_case") :
        calls[k].request.ccEmailAddresses = SplitAtCommas(environ.CC_LIST.s)

-----------------------------------------------------------------------------
(* Properties of the Case Opener *)

CreateCaseCalls == CallsOf("create_case")

DescribeCasesCalls == CallsOf("describe_cases")

\* The call at position k did not come back with a usable answer.
CallFailed(k) ==
    \/ calls[k].op = "describe_create_account_status"
          /\ (calls[k].response.error \/ Upper(calls[k].response.State) = "FAILED")
    \/ calls[k].op = "create_case" /\ calls[k].response.outcome # "ok"
    \/ calls[k].op = "describe_cases" /\ calls[k].response.outcome # "ok"

\* C11: the Case Opener goes Start, Templated, Submitted, Described, Done or
\* stops in Failed: create_case is sent with both templates substituted,
\* describe_cases is sent only after create_case returned a case id and asks
\* for exactly that id, each is sent at most once, a template that cannot be
\* substituted leaves both unsent, and a call that failed is the last call.
C11_CaseOpenerSequence ==
    LET s == ReplaceAccountIdAndEscapes(environ.SUBJECT.s, account_id, 1)
        b == ReplaceAccountIdAndEscapes(environ.COMMUNICATION_BODY.s, account_id, 1)
    IN /\ Cardinality(CreateCaseCalls) <= 1
       /\ Cardinality(DescribeCasesCalls) <= 1
       /\ \A k \in CreateCaseCalls :
            /\ s.ok /\ calls[k].request.subject = s.val
            /\ b.ok /\ calls[k].request.communicationBody = b.val
       /\ \A k \in DescribeCasesCalls :
            \E j \in CreateCaseCalls :
                /\ j < k
                /\ calls[j].response.outcome = "ok"
                /\ calls[j].response.caseId # ""
                /\ calls[k].request = <<calls[j].response.caseId>>
       /\ \A k \in CreateCaseCalls \cup DescribeCasesCalls :
            CallFailed(k) => k = Len(calls) /\ pc = "raised"
       /\ pc = "create_case" => CreateCaseCalls = {} /\ DescribeCasesCalls = {}
       /\ pc = "describe_cases" => CreateCaseCalls # {} /\ DescribeCasesCalls = {}
       /\ pc = "returned" => CreateCaseCalls # {} /\ DescribeCasesCalls # {}
       /\ (pc = "raised" /\ CreateCaseCalls = {}) => DescribeCasesCalls = {}

C11_Witness ==
    /\ pc = "returned"
    /\ \E j \in CreateCaseCalls : \E k \in DescribeCasesCalls :
          j < k /\ calls[k].request = <<"case-1">>

\* C12: if the create_case response lacks a case id or carries an empty
\* one, main raises SupportCaseError ("Missing case_id in create_case()
\* response") and sends no describe_cases request; main never succeeds
\* without a case id.
C12_MissingCaseIdRaisesSupportCaseError ==
    /\ \A k \in CreateCaseCalls :
          calls[k].response.outcome \in {"noCaseId", "emptyCaseId"} =>
              /\ pc = "raised"
              /\ exc.type = "SupportCaseError"
              /\ exc.msg = <<"Missing case_id in create_case() response">>
              /\ DescribeCasesCalls = {}
    /\ pc = "returned" => case_id # ""

\* C13: the display id main records is the displayId of the first case of
\* the describe_cases result; a result without cases, with an empty list of
\* cases or with a first case without displayId makes main raise
\* SupportCaseError, no other error, and never succeed.
C13_MalformedDescribeCasesRaisesSupportCaseError ==
    \A k \in DescribeCasesCalls :
        /\ pc = "returned" => display_id = calls[k].response.cases[1].displayId
        /\ calls[k].response.outcome \in {"noCases", "emptyCases", "noDisplayId"} =>
              /\ pc = "raised"
              /\ exc.type = "SupportCaseError"

-----------------------------------------------------------------------------
(* Properties of error propagation *)

\* C14: every exception raised by a describe_create_account_status call,
\* on the first query or a later one, reaches the caller of get_account_id
\* as AccountCreationFailedError wrapping it (its text kept, the exception as
\* cause), never as the raw exception.
C14_PollingErrorsAreWrapped ==
    \A k \in StatusCalls :
        calls[k].response.error =>
            /\ pc = "raised"
            /\ exc.type = "AccountCreationFailedError"
            /\ exc.cause = calls[k].response.errorType
            /\ exc.msg = CallErrorMessage(calls[k].response.errorType,
                                          "DescribeCreateAccountStatus")

\* C15: every exception raised by the create_case call or by the
\* describe_cases call reaches the caller of main as SupportCaseError
\* wrapping it, and after a create_case that raised no describe_cases
\* request is sent.
C15_SupportCallErrorsAreWrapped ==
    /\ \A k \in CreateCaseCalls \cup DescribeCasesCalls :
          calls[k].response.outcome \in CallErrors =>
              /\ pc = "raised"
              /\ exc.type = "SupportCaseError"
              /\ exc.cause = calls[k].response.outcome
    /\ \A k \in CreateCaseCalls :
          calls[k].response.outcome \in CallErrors => DescribeCasesCalls = {}

-----------------------------------------------------------------------------
(* Properties of the invite path and of the polling loop *)

SleepCalls == CallsOf("sleep")

\* C16: for an InviteAccountToOrganization event get_account_id returns
\* detail.requestParameters.target.id at once: when main is entered no
\* external call has been made, and the invocation never queries the
\* organization service and never sleeps.
C16_InviteResolvesImmediately ==
    ( /\ event.eventName = "InviteAccountToOrganization"
      /\ pc \notin {"lambda_handler", "get_account_id"}
      /\ MissingVariables = {} )
    => /\ account_id = event.targetId
       /\ StatusCalls = {}
       /\ SleepCalls = {}
       /\ pc = "main" => calls = <<>> /\ exc = NoExc

C16_Witness ==
    /\ event.eventName = "InviteAccountToOrganization"
    /\ pc = "main"
    /\ account_id = "123"

\* C17: in get_new_account_id a status response that is neither SUCCEEDED
\* nor FAILED is followed by exactly one sleep of 5 and then by another
\* status query with the same creation-request token; a sleep follows an
\* in-progress response only; and while every response so far is in progress
\* the resolver has neither returned nor failed, however many polls it made.
C17_InProgressSleepsThenPollsAgain ==
    /\ \A k \in StatusCalls :
          IsInProgress(calls[k].response) =>
              /\ k = Len(calls) => pc = "sleep"
              /\ k < Len(calls) => calls[k + 1].op = "sleep" /\ calls[k + 1].request = 5
              /\ k + 1 = Len(calls) => pc = "describe_create_account_status"
              /\ k + 1 < Len(calls) =>
                    /\ calls[k + 2].op = "describe_create_account_status"
                    /\ calls[k + 2].request = calls[k].request
                    /\ calls[k].request = event.createAccountStatusId
    /\ \A k \in SleepCalls :
          /\ k > 1
          /\ (k - 1) \in StatusCalls
          /\ IsInProgress(calls[k - 1].response)
    /\ (StatusCalls # {} /\ \A k \in StatusCalls : IsInProgress(calls[k].response)) =>
          /\ pc \in {"sleep", "describe_create_account_status"}
          /\ account_id = ""
          /\ exc = NoExc
          /\ retval = ""

C17_Witness ==
    /\ Cardinality(StatusCalls) = MaxPolls - 1
    /\ \A k \in StatusCalls : IsInProgress(calls[k].response)
    /\ Cardinality(SleepCalls) = MaxPolls - 1
    /\ pc = "describe_create_account_status"

-----------------------------------------------------------------------------
(* Termination *)

Terminated == pc \in {"returned", "raised"}

\* The resolver is in its loop and every answer recorded was in progress.
PollingInProgress ==
    /\ pc \in {"describe_create_account_status", "sleep"}
    /\ \A k \in StatusCalls : IsInProgress(calls[k].response)

\* C18: every invocation of lambda_handler terminates, returned or raised,
\* unless the organization service answers in progress for ever, in which
\* case the invocation stays in the polling loop: if the service eventually
\* reports SUCCEEDED or FAILED (or the call raises) the invocation ends.
C18_TerminatesUnlessPollingForEver ==
    (<>[]PollingInProgress) \/ <>Terminated

\* The loop went round once more than the record holds.
C18_Witness ==
    /\ pc = "sleep"
    /\ Cardinality(SleepCalls) = Cardinality(StatusCalls)
    /\ PollingInProgress

\* Termination without the assumption on the organization service: it does
\* not hold, since the loop has no bound of its own.
TerminatesWhateverTheService == <>Terminated

-----------------------------------------------------------------------------
(* Properties of the handler as a whole *)

\* Some step of the invocation has failed: the configuration check, the
\* account resolution, the substitution of a template, or an external call.
SomeStepFailed ==
    \/ MissingVariables # {} /\ pc # "lambda_handler"
    \/ /\ pc \notin {"lambda_handler", "get_account_id"}
       /\ MissingVariables = {}
       /\ \/ event.eventName \notin {"CreateAccount", "CreateGovCloudAccount",
                                     "InviteAccountToOrganization"}
          \/ /\ event.eventName \in AsyncCreationNames
             /\ event.createAccountStatusId = Absent
    \/ /\ TemplatesDone
       /\ \/ ~ReplaceAccountIdAndEscapes(environ.SUBJECT.s, account_id, 1).ok
          \/ ~ReplaceAccountIdAndEscapes(environ.COMMUNICATION_BODY.s, account_id, 1).ok
    \/ \E k \in 1..Len(calls) : CallFailed(k)

\* C19: an error in the configuration check, in account resolution or in
\* case opening leaves lambda_handler as an exception: once a step has failed
\* the handler has raised and returned nothing, it returns only when no step
\* failed, and after a failed account resolution the Case Opener has not
\* been entered (no template substituted, no support-service call).
C19_ErrorsSurface ==
    /\ SomeStepFailed => pc = "raised" /\ exc # NoExc /\ retval = ""
    /\ pc = "returned" => ~SomeStepFailed /\ exc = NoExc
    /\ pc = "raised" <=> exc # NoExc
    /\ (pc = "raised" /\ account_id = "") =>
          /\ subject = <<>>
          /\ communication_body = <<>>
          /\ CreateCaseCalls = {}
          /\ DescribeCasesCalls = {}
          /\ cases = <<>>

C19_Witness ==
    /\ pc = "raised"
    /\ account_id = ""
    /\ exc.type = "AccountCreationFailedError"
    /\ \E k \in StatusCalls : StatusIs(k, "FAILED")

\* C20: a successful invocation of lambda_handler returns None: neither
\* what main returned nor the display id, which stays inside main.
C20_ReturnsNothing ==
    pc = "returned" =>
        /\ retval = "None"
        /\ retval # main_retval
        /\ retval # display_id
        /\ display_id # ""

C20_Witness ==
    /\ pc = "returned"
    /\ retval = "None"
    /\ display_id = "display-1"

-----------------------------------------------------------------------------
(* Further properties of failure reporting and ordering *)

\* C21: when account creation is reported FAILED, the
\* AccountCreationFailedError that reaches the caller of get_account_id
\* carries the failure detail of the status response (its FailureReason):
\* its message is not empty.
C21_FailureDetailEmbedded ==
    \A k \in StatusCalls :
        StatusIs(k, "FAILED") =>
            /\ exc.type = "AccountCreationFailedError"
            /\ exc.msg # <<>>
            /\ calls[k].response.FailureReason \in Range(exc.msg)

\* lambda_handler has not entered main yet.
BeforeMain ==
    pc \in {"lambda_handler", "get_account_id", "describe_create_account_status",
            "sleep"}

\* The invocation ended with an exception of template_to_string: the
\* SupportCaseError made from the KeyError of an unknown placeholder, or the
\* ValueError of an invalid delimiter.
TemplateFailed ==
    /\ pc = "raised"
    /\ \/ /\ exc.type = "SupportCaseError"
          /\ exc.cause = "KeyError"
          /\ exc.msg # <<>>
          /\ exc.msg[1] = "Unexpected variable "
       \/ exc.type = "ValueError"

\* C22: the templates are substituted only after get_account_id has
\* returned.  Before main is entered no template has been substituted and no
\* template error raised; a substituted subject or a template error goes with
\* a resolved account id; and for an async-creation event a template error
\* comes after at least one status query, the latest call being the status
\* query that returned SUCCEEDED with the account id in use, every call so far
\* being a status query or a sleep.
C22_TemplatesAfterResolution ==
    /\ BeforeMain =>
          /\ subject = <<>>
          /\ communication_body = <<>>
          /\ exc = NoExc
    /\ (subject # <<>> \/ communication_body # <<>> \/ TemplateFailed) =>
          /\ account_id # ""
          /\ ~BeforeMain
    /\ (TemplateFailed /\ event.eventName \in AsyncCreationNames) =>
          /\ StatusCalls # {}
          /\ calls # <<>>
          /\ StatusIs(Len(calls), "SUCCEEDED")
          /\ calls[Len(calls)].response.AccountId = account_id
          /\ \A k \in 1..Len(calls) :
                calls[k].op \in {"describe_create_account_status", "sleep"}
    /\ (TemplateFailed /\ event.eventName = "InviteAccountToOrganization") =>
          /\ account_id = event.targetId
          /\ calls = <<>>

\* An async-creation event, an unknown placeholder in the subject: the
\* status was polled twice, with a sleep in between, before the template
\* error.
C22_Witness ==
    /\ event.eventName \in AsyncCreationNames
    /\ environ.SUBJECT = Str(<<"$", "unknown_var">>)
    /\ TemplateFailed
    /\ exc.type = "SupportCaseError"
    /\ Cardinality(StatusCalls) = 2
    /\ SleepCalls # {}

\* The variables the message of the exception names.
NamedVariables == Range(exc.msg) \cap {"CC_LIST", "SUBJECT", "COMMUNICATION_BODY"}

\* After check_for_null_envvars: with a variable missing, one exception, that
\* names the first missing variable in the order CC_LIST, SUBJECT,
\* COMMUNICATION_BODY; with none missing, no exception.
FirstMissingNamed ==
    pc # "lambda_handler" =>
        IF MissingVariables # {}
        THEN /\ pc = "raised"
             /\ exc.type = "SupportCaseInvalidArgumentsError"
             /\ Cardinality(NamedVariables) = 1
             /\ "CC_LIST" \in MissingVariables => NamedVariables = {"CC_LIST"}
             /\ "SUBJECT" \in NamedVariables => "CC_LIST" \notin MissingVariables
             /\ "COMMUNICATION_BODY" \in NamedVariables =>
                    MissingVariables = {"COMMUNICATION_BODY"}
        ELSE exc.type # "SupportCaseInvalidArgumentsError"

\* The step of check_for_null_envvars changes nothing of the configuration,
\* the event and the locals; with no variable missing it raises nothing and
\* the handler goes on to get_account_id.
CheckChangesNothing ==
    pc = "lambda_handler" =>
        /\ UNCHANGED <<environ, event, create_account_status_id, account_id, subject,
                       communication_body, case_id, display_id, calls, cases>>
        /\ MissingVariables = {} =>
              /\ pc' = "get_account_id"
              /\ UNCHANGED <<exc, retval>>

\* C23: check_for_null_envvars tests CC_LIST, then SUBJECT, then
\* COMMUNICATION_BODY and raises on the first one that is missing: with
\* several missing the error names CC_LIST before SUBJECT and SUBJECT before
\* COMMUNICATION_BODY, one error is raised, and with none missing the
\* function raises nothing and changes nothing.
C23_FirstMissingVariableInFixedOrder ==
    /\ []FirstMissingNamed
    /\ [][CheckChangesNothing]_vars

\* SUBJECT and COMMUNICATION_BODY are both missing: the error names SUBJECT.
C23_Witness ==
    /\ MissingVariables = {"SUBJECT", "COMMUNICATION_BODY"}
    /\ pc = "raised"
    /\ exc = InvalidArguments(SubjectMessage)
    /\ calls = <<>>

====
